---- MODULE Spec2Model ----
(***************************************************************************)
(* SayClip: the audio -> transcription -> clipboard pipeline of AudioAPI   *)
(* (src/backend/api.py, and the earlier variant in src/main.py) and the    *)
(* credential validation with its process restart.                         *)
(*                                                                         *)
(* Python values are modelled as follows.  A str that the code inspects    *)
(* character by character (the base64 argument, the transcribed text) is a *)
(* sequence of one-character strings; bytes are sequences of 0..255; other *)
(* strs (messages, keys, names) are TLA+ strings; a dict is a record; an   *)
(* exception is a record [type, message]; None is a sentinel of the        *)
(* field's type.                                                           *)
(***************************************************************************)
EXTENDS Integers, Sequences, FiniteSets, TLC

VARIABLES
    config_file,  \* contents of config.json, or NotFound
    keyring,      \* the secret store: <<service, username>> -> password
    environ,      \* os.environ["OPENAI_API_KEY"] after load_dotenv()
    self,         \* the AudioAPI instance of the running process (backend/api.py)
    main_api,     \* the AudioAPI instance of the earlier variant (main.py)
    clipboard,    \* the system clipboard
    pc,           \* "idle", "returned" (a call returned to the host),
                  \* "restarted" (a call replaced the process image)
    call,         \* the last call: its arguments and the external calls it made
    ret,          \* the value that call returned to the host
    accepted,     \* keys that a probe of validate_and_save_key accepted
    threads       \* overlapping process_audio calls, one record per thread

vars == <<config_file, keyring, environ, self, main_api, clipboard, pc, call, ret,
          accepted, threads>>

----------------------------------------------------------------------------
(* Bounds of the model                                                     *)

\* longest base64 argument
MaxLen == 4
\* longest text the transcription backend returns
MaxTextLen == 2

----------------------------------------------------------------------------
(* Python values                                                           *)

None == "<None>"
EmptyDict == [k \in {} |-> 0]
NotFound == [FileNotFoundError |-> TRUE]

\* a test for None alone
Truthy_is_not_None(s) == s # None

\* bool(s) for an optional str
Truthy(s) == s # None /\ s # ""

\* dict.get(key, default)
Get(d, key, default) == IF key \in DOMAIN d THEN d[key] ELSE default

NoException == [type |-> "none", message |-> ""]
Raised(e) == e.type # "none"

\* all sequences over S of length at most n
SeqsUpTo(S, n) == UNION {[1..k -> S] : k \in 0..n}

----------------------------------------------------------------------------
(* base64.b64decode(s) with validate=False: binascii.a2b_base64            *)

\* table_a2b_base64 restricted to the characters of the model; 64 and above
\* mark a character outside the alphabet
table_a2b_base64(ch) ==
    CASE ch = "A" -> 0
      [] ch = "Q" -> 16
      [] ch = "/" -> 63
      [] OTHER    -> 64

BASE64_PAD == "="

binascii_Error(message) == [type |-> "binascii.Error", message |-> message]

RECURSIVE a2b_base64(_, _, _, _, _, _)
a2b_base64(ascii_data, i, quad_pos, leftchar, pads, bin_data) ==
    IF i > Len(ascii_data)
    THEN IF quad_pos # 0
         THEN IF quad_pos = 1
              THEN [error |-> binascii_Error(
                       "Invalid base64-encoded string: number of data characters ("
                       \o ToString((Len(bin_data) \div 3) * 4 + 1)
                       \o ") cannot be 1 more than a multiple of 4"),
                    data |-> << >>]
              ELSE [error |-> binascii_Error("Incorrect padding"), data |-> << >>]
         ELSE [error |-> NoException, data |-> bin_data]
    ELSE LET this_ch == ascii_data[i] IN
         IF this_ch = BASE64_PAD
         THEN IF quad_pos >= 2 /\ quad_pos + pads + 1 >= 4
              THEN [error |-> NoException, data |-> bin_data]
              ELSE a2b_base64(ascii_data, i + 1, quad_pos, leftchar,
                              IF quad_pos >= 2 THEN pads + 1 ELSE pads, bin_data)
         ELSE LET v == table_a2b_base64(this_ch) IN
              IF v >= 64
              THEN a2b_base64(ascii_data, i + 1, quad_pos, leftchar, pads, bin_data)
              ELSE CASE quad_pos = 0 ->
                          a2b_base64(ascii_data, i + 1, 1, v, 0, bin_data)
                     [] quad_pos = 1 ->
                          a2b_base64(ascii_data, i + 1, 2, v % 16, 0,
                              Append(bin_data, (leftchar * 4 + v \div 16) % 256))
                     [] quad_pos = 2 ->
                          a2b_base64(ascii_data, i + 1, 3, v % 4, 0,
                              Append(bin_data, (leftchar * 16 + v \div 4) % 256))
                     [] quad_pos = 3 ->
                          a2b_base64(ascii_data, i + 1, 0, 0, 0,
                              Append(bin_data, (leftchar * 64 + v) % 256))

b64decode(s) == a2b_base64(s, 1, 0, 0, 0, << >>)

----------------------------------------------------------------------------
(* str.strip()                                                             *)

isspace(ch) == ch \in {" ", "\t", "\n"}

RECURSIVE lstrip(_)
lstrip(s) == IF s # << >> /\ isspace(Head(s)) THEN lstrip(Tail(s)) ELSE s

RECURSIVE rstrip(_)
rstrip(s) ==
    IF s # << >> /\ isspace(s[Len(s)]) THEN rstrip(SubSeq(s, 1, Len(s) - 1)) ELSE s

\* a strip() that was left out
strip_omitted(s) == s

strip(s) == rstrip(lstrip(s))

----------------------------------------------------------------------------
(* The collaborators: configuration, secret store, OpenAI client           *)

SayClipEntry == <<"SayClip", "openai_api_key">>
OtherEntry == <<"SayClip", "username">>
KeyringEntries == {SayClipEntry, OtherEntry}

\* keyring.get_password / keyring.set_password
get_password(kr, service, username) == kr[<<service, username>>]
set_password(kr, service, username, password) ==
    [kr EXCEPT ![<<service, username>>] = password]

DefaultBaseUrl == "https://api.openai.com/v1/"

\* OpenAI(api_key=..., base_url=...)
OpenAI(api_key, base_url) == [api_key |-> api_key, base_url |-> base_url]
NoClient == [none |-> TRUE]

load_config(file) == IF file = NotFound THEN EmptyDict ELSE file

\* AudioAPI.__init__ of backend/api.py
AudioAPI_init(file, kr, env) ==
    LET config == load_config(file)
        openai == Get(config, "openai", EmptyDict)
        stored == get_password(kr, "SayClip", "openai_api_key")
        api_key == IF Truthy(stored) THEN stored ELSE env
    IN  [config      |-> config,
         model       |-> Get(openai, "model", "whisper-1"),
         prompt      |-> Get(openai, "prompt", ""),
         base_url    |-> Get(openai, "base_url", DefaultBaseUrl),
         temperature |-> Get(openai, "temperature", 0),
         api_key     |-> api_key,
         client      |-> IF Truthy(api_key)
                         THEN OpenAI(api_key, DefaultBaseUrl) ELSE NoClient,
         window      |-> None]

\* AudioAPI.__init__ of main.py: config["openai"]["model"] raises KeyError
\* without the entry, OpenAI() raises without OPENAI_API_KEY; main() then
\* ends before the window exists
Crashed == [crashed |-> TRUE]
main_AudioAPI_init(file, env) ==
    LET config == load_config(file) IN
    IF "openai" \notin DOMAIN config THEN Crashed
    ELSE IF "model" \notin DOMAIN config["openai"] THEN Crashed
    ELSE IF env = None THEN Crashed
    ELSE [config |-> config,
          model  |-> config["openai"]["model"],
          prompt |-> Get(config["openai"], "prompt", ""),
          client |-> OpenAI(env, DefaultBaseUrl)]

----------------------------------------------------------------------------
(* process_audio                                                           *)

Str(s) == [str |-> s]
NoReturn == [noreturn |-> TRUE]
IsDict(r) == "success" \in DOMAIN r

Timestamp == "20250101_120000"

BytesIO(audio_data) ==
    [name |-> "recording_" \o Timestamp \o ".webm", data |-> audio_data]

ErrorResult(e) ==
    [success |-> FALSE, stage |-> "error", message |-> e.message, copied |-> FALSE]

\* a clipboard failure reported as a failed transcription
DoneResult_copy_fails(text, copied) ==
    [success |-> copied, stage |-> IF copied THEN "done" ELSE "error",
     message |-> IF copied THEN "Transcription complete" ELSE "Clipboard copy failed",
     text |-> text, copied |-> copied]

DoneResult(text, copied) ==
    [success |-> TRUE, stage |-> "done", message |-> "Transcription complete",
     text |-> text, copied |-> copied]

\* copykitten.copy: the clipboard holds the text unless the write raised
ck_copy(clip, text, copy_outcome) == IF Raised(copy_outcome) THEN clip ELSE text

\* The try block shared by both variants (api.py 85-121, main.py 46-81).
\* create_outcome is what client.audio.transcriptions.create does with the
\* request (file plus the keyword arguments kwargs), copy_outcome what the
\* clipboard write does.  The value holds the returned object and the
\* external calls made, in order.
transcribe(kwargs, clip, audio_base64, create_outcome, copy_outcome) ==
    LET decoded == b64decode(audio_base64) IN
    IF Raised(decoded.error)
    THEN [ret |-> ErrorResult(decoded.error), requests |-> << >>,
          copies |-> << >>, clipboard |-> clip]
    ELSE
    LET audio_file == BytesIO(decoded.data)
        request == [file |-> audio_file, kwargs |-> kwargs,
                    response |-> create_outcome]
    IN
    IF Raised(create_outcome.error)
    THEN [ret |-> ErrorResult(create_outcome.error), requests |-> <<request>>,
          copies |-> << >>, clipboard |-> clip]
    ELSE
    LET text == strip(create_outcome.text)
        copied == ~Raised(copy_outcome)
    IN  [ret |-> DoneResult(text, copied), requests |-> <<request>>,
         copies |-> <<[text |-> text, error |-> copy_outcome]>>,
         clipboard |-> ck_copy(clip, text, copy_outcome)]

\* AudioAPI.process_audio of backend/api.py
process_audio(slf, clip, audio_base64, create_outcome, copy_outcome) ==
    IF slf.client = NoClient
    THEN [ret |-> Str("Error: OpenAI API key not configured."),
          requests |-> << >>, copies |-> << >>, clipboard |-> clip]
    ELSE transcribe([client |-> slf.client, model |-> slf.model,
                     prompt |-> slf.prompt, temperature |-> slf.temperature],
                    clip, audio_base64, create_outcome, copy_outcome)

\* AudioAPI.process_audio of main.py
main_process_audio(slf, clip, audio_base64, create_outcome, copy_outcome) ==
    transcribe([client |-> slf.client, model |-> slf.model, prompt |-> slf.prompt],
               clip, audio_base64, create_outcome, copy_outcome)

----------------------------------------------------------------------------
(* validate_and_save_key and restart_app                                   *)

\* AudioAPI.restart_app: os.execl replaces the process image and does not
\* return; window.destroy() and os.execl may raise instead
restart_app(slf, destroy_outcome, execl_outcome) ==
    LET destroyed == IF slf.window # None
                     THEN <<[op |-> "window.destroy", error |-> destroy_outcome]>>
                     ELSE << >>
    IN
    IF slf.window # None /\ Raised(destroy_outcome)
    THEN [events |-> destroyed, error |-> destroy_outcome, exits |-> FALSE]
    ELSE [events |-> destroyed \o <<[op |-> "os.execl", error |-> execl_outcome]>>,
          error |-> execl_outcome,
          exits |-> ~Raised(execl_outcome)]

\* the except clauses with their messages exchanged
validation_error_exchanged(e) ==
    CASE e.type = "AuthenticationError" ->
           [success |-> FALSE,
            error |-> "Connection error. Please check your internet connection."]
      [] e.type = "APIConnectionError" ->
           [success |-> FALSE,
            error |-> "Incorrect API key provided. Please check your key."]
      [] OTHER -> [success |-> FALSE, error |-> e.message]

\* the except clauses of validate_and_save_key
validation_error(e) ==
    CASE e.type = "AuthenticationError" ->
           [success |-> FALSE,
            error |-> "Incorrect API key provided. Please check your key."]
      [] e.type = "APIConnectionError" ->
           [success |-> FALSE,
            error |-> "Connection error. Please check your internet connection."]
      [] OTHER -> [success |-> FALSE, error |-> e.message]

\* the restart placed before the save
restart_then_save(slf, kr, api_key, set_outcome, destroy_outcome, execl_outcome) ==
    LET restart == restart_app(slf, destroy_outcome, execl_outcome)
        persist == [op |-> "set_password", entry |-> SayClipEntry,
                    password |-> api_key, error |-> set_outcome]
    IN
    IF restart.exits
    THEN [ret |-> NoReturn, events |-> restart.events, keyring |-> kr,
          exits |-> TRUE]
    ELSE IF Raised(restart.error)
    THEN [ret |-> validation_error(restart.error), events |-> restart.events,
          keyring |-> kr, exits |-> FALSE]
    ELSE IF Raised(set_outcome)
    THEN [ret |-> validation_error(set_outcome),
          events |-> restart.events \o <<persist>>, keyring |-> kr, exits |-> FALSE]
    ELSE [ret |-> [success |-> TRUE], events |-> restart.events \o <<persist>>,
          keyring |-> set_password(kr, "SayClip", "openai_api_key", api_key),
          exits |-> FALSE]

\* validate_and_save_key once the probe has succeeded (api.py 49-54):
\* save to the keyring, then restart
save_and_restart(slf, kr, api_key, set_outcome, destroy_outcome, execl_outcome) ==
    LET persist == [op |-> "set_password", entry |-> SayClipEntry,
                    password |-> api_key, error |-> set_outcome]
    IN
    IF Raised(set_outcome)
    THEN [ret |-> validation_error(set_outcome), events |-> <<persist>>,
          keyring |-> kr, exits |-> FALSE]
    ELSE
    LET stored == set_password(kr, "SayClip", "openai_api_key", api_key)
        restart == restart_app(slf, destroy_outcome, execl_outcome)
        events == <<persist>> \o restart.events
    IN
    IF restart.exits
    THEN [ret |-> NoReturn, events |-> events, keyring |-> stored, exits |-> TRUE]
    ELSE IF Raised(restart.error)
    THEN [ret |-> validation_error(restart.error), events |-> events,
          keyring |-> stored, exits |-> FALSE]
    ELSE [ret |-> [success |-> TRUE], events |-> events, keyring |-> stored,
          exits |-> FALSE]

\* the key saved before it is probed
save_then_validate(slf, kr, api_key, list_outcome, set_outcome, destroy_outcome, execl_outcome) ==
    IF ~Truthy(api_key)
    THEN [ret |-> [success |-> FALSE, error |-> "API key cannot be empty"],
          events |-> << >>, keyring |-> kr, exits |-> FALSE]
    ELSE
    LET persist == [op |-> "set_password", entry |-> SayClipEntry,
                    password |-> api_key, error |-> set_outcome]
        probe == [op |-> "models.list", client |-> OpenAI(api_key, slf.base_url),
                  error |-> list_outcome]
        stored == set_password(kr, "SayClip", "openai_api_key", api_key)
        restart == restart_app(slf, destroy_outcome, execl_outcome)
    IN
    IF Raised(set_outcome)
    THEN [ret |-> validation_error(set_outcome), events |-> <<persist>>,
          keyring |-> kr, exits |-> FALSE]
    ELSE IF Raised(list_outcome)
    THEN [ret |-> validation_error(list_outcome), events |-> <<persist, probe>>,
          keyring |-> stored, exits |-> FALSE]
    ELSE [ret |-> IF restart.exits THEN NoReturn ELSE validation_error(restart.error),
          events |-> <<persist, probe>> \o restart.events,
          keyring |-> stored, exits |-> restart.exits]

\* AudioAPI.validate_and_save_key.  The value holds the returned object (none
\* when the process image was replaced), the external calls made, in order,
\* and the secret store afterwards.
validate_and_save_key(slf, kr, api_key, list_outcome, set_outcome, destroy_outcome, execl_outcome) ==
    IF ~Truthy(api_key)
    THEN [ret |-> [success |-> FALSE, error |-> "API key cannot be empty"],
          events |-> << >>, keyring |-> kr, exits |-> FALSE]
    ELSE
    LET probe == [op |-> "models.list", client |-> OpenAI(api_key, slf.base_url),
                  error |-> list_outcome]
    IN
    IF Raised(list_outcome)
    THEN [ret |-> validation_error(list_outcome), events |-> <<probe>>,
          keyring |-> kr, exits |-> FALSE]
    ELSE
    LET saved == save_and_restart(slf, kr, api_key, set_outcome, destroy_outcome,
                                  execl_outcome)
    IN  [saved EXCEPT !.events = <<probe>> \o saved.events]

----------------------------------------------------------------------------
(* Inputs and outcomes of the environment                                  *)

\* a character of the alphabet, the pad, and a character outside the alphabet
Base64Chars == {"/", "=", "!"}
AudioInputs == SeqsUpTo(Base64Chars, MaxLen)

\* the arguments of the calls made while credentials are being accepted
SetupAudioInputs == {<< >>, <<"A">>, <<"A", "/", "=", "=">>}

TextChars == {" ", "a"}
Texts == SeqsUpTo(TextChars, MaxTextLen)

Exception(type, message) == [type |-> type, message |-> message]

CreateOutcomes ==
    {[error |-> NoException, text |-> t] : t \in Texts}
    \cup {[error |-> e, text |-> << >>] :
            e \in {Exception("APIConnectionError", "Connection error."),
                   Exception("Exception", "")}}

CopyOutcomes == {NoException, Exception("CopykittenError", "clipboard unavailable")}

\* the clipboard is written only after the backend has answered
TranscribeOutcomes ==
    {o \in [create : CreateOutcomes, copy : CopyOutcomes] :
        Raised(o.create.error) => ~Raised(o.copy)}

Keys == {"sk-A", "sk-B"}
Candidates == Keys \cup {"", None}

ListOutcomes ==
    {NoException,
     Exception("AuthenticationError", "Error code: 401"),
     Exception("APIConnectionError", "Connection error."),
     Exception("RateLimitError", "Error code: 429")}

SetOutcomes == {NoException, Exception("NoKeyringError", "No recommended backend was available.")}
DestroyOutcomes == {NoException, Exception("WebViewException", "Window is closed")}
ExeclOutcomes == {NoException, Exception("OSError", "[Errno 8] Exec format error")}

ConfigFiles ==
    {NotFound,
     [openai |-> [model |-> "whisper-1", prompt |-> "SayClip",
                  base_url |-> "http://localhost:8080/v1/", temperature |-> 1]]}

Environs == {None, "", "sk-env"}

Keyrings ==
    {[e \in KeyringEntries |-> IF e = SayClipEntry THEN k ELSE None] :
        k \in {None, "sk-A"}}

InitialClipboard == <<"<initial>">>

Threads == {"t1", "t2"}
NoCall == [fn |-> "none"]
IdleThread == [pc |-> "idle"]

----------------------------------------------------------------------------
(* The state machine, one call at a time                                   *)

\* The process has started: every variant's AudioAPI() has run
Init ==
    /\ config_file \in ConfigFiles
    /\ keyring \in Keyrings
    /\ environ \in Environs
    /\ self = AudioAPI_init(config_file, keyring, environ)
    /\ main_api = main_AudioAPI_init(config_file, environ)
    /\ clipboard = InitialClipboard
    /\ pc = "idle"
    /\ call = NoCall
    /\ ret = NoReturn
    /\ accepted = {}
    /\ threads = [t \in Threads |-> IdleThread]

\* the host calls process_audio of backend/api.py and the call returns
ProcessAudio(inputs) ==
    /\ pc = "idle"
    /\ \E audio_base64 \in inputs, outcome \in TranscribeOutcomes :
        LET r == process_audio(self, clipboard, audio_base64, outcome.create,
                               outcome.copy)
        IN  /\ call' = [fn |-> "process_audio", audio_base64 |-> audio_base64,
                        requests |-> r.requests, copies |-> r.copies]
            /\ ret' = r.ret
            /\ clipboard' = r.clipboard
    /\ pc' = "returned"
    /\ UNCHANGED <<config_file, keyring, environ, self, main_api, accepted, threads>>

\* the host calls process_audio of main.py and the call returns
MainProcessAudio(inputs) ==
    /\ pc = "idle"
    /\ main_api # Crashed
    /\ \E audio_base64 \in inputs, outcome \in TranscribeOutcomes :
        LET r == main_process_audio(main_api, clipboard, audio_base64,
                                    outcome.create, outcome.copy)
        IN  /\ call' = [fn |-> "main.process_audio", audio_base64 |-> audio_base64,
                        requests |-> r.requests, copies |-> r.copies]
            /\ ret' = r.ret
            /\ clipboard' = r.clipboard
    /\ pc' = "returned"
    /\ UNCHANGED <<config_file, keyring, environ, self, main_api, accepted, threads>>

\* the host calls validate_and_save_key; the call returns, or the process
\* image is replaced and a fresh AudioAPI() runs
ValidateAndSaveKey ==
    /\ pc = "idle"
    /\ \E api_key \in Candidates, list_outcome \in ListOutcomes,
          set_outcome \in SetOutcomes, destroy_outcome \in DestroyOutcomes,
          execl_outcome \in ExeclOutcomes :
        LET r == validate_and_save_key(self, keyring, api_key, list_outcome,
                                       set_outcome, destroy_outcome, execl_outcome)
        IN  /\ call' = [fn |-> "validate_and_save_key", api_key |-> api_key,
                        events |-> r.events, client |-> self.client]
            /\ ret' = r.ret
            /\ keyring' = r.keyring
            /\ accepted' = accepted \cup
                   {r.events[i].client.api_key : i \in
                       {j \in DOMAIN r.events : /\ r.events[j].op = "models.list"
                                                /\ ~Raised(r.events[j].error)}}
            /\ IF r.exits
               THEN /\ pc' = "restarted"
                    /\ self' = AudioAPI_init(config_file, r.keyring, environ)
               ELSE /\ pc' = "returned"
                    /\ self' = self
    /\ UNCHANGED <<config_file, environ, main_api, clipboard, threads>>

\* the host has the result (or the fresh window) and is ready for the next call
HostReady ==
    /\ pc \in {"returned", "restarted"}
    /\ pc' = "idle"
    /\ call' = NoCall
    /\ ret' = NoReturn
    /\ UNCHANGED <<config_file, keyring, environ, self, main_api, clipboard,
                   accepted, threads>>

\* the host gives the instance its window
AttachWindow ==
    /\ pc = "idle"
    /\ self.window = None
    /\ self' = [self EXCEPT !.window = "window"]
    /\ UNCHANGED <<config_file, keyring, environ, main_api, clipboard, pc, call,
                   ret, accepted, threads>>

\* the user closes the application and starts it again
Launch ==
    /\ pc = "idle"
    /\ self' = AudioAPI_init(config_file, keyring, environ)
    /\ UNCHANGED <<config_file, keyring, environ, main_api, clipboard, pc, call,
                   ret, accepted, threads>>

\* transcription calls, of either variant
NextAudio ==
    \/ ProcessAudio(AudioInputs)
    \/ MainProcessAudio(AudioInputs)
    \/ HostReady

SpecAudio == Init /\ [][NextAudio]_vars

\* credential validation, restarts, and transcription calls in between
NextSetup ==
    \/ ValidateAndSaveKey
    \/ ProcessAudio(SetupAudioInputs)
    \/ AttachWindow
    \/ Launch
    \/ HostReady

SpecSetup == Init /\ [][NextSetup]_vars

----------------------------------------------------------------------------
(* Two overlapping process_audio calls on one instance (backend/api.py).   *)
(* Each call runs in a thread of its own; a step is the code between two   *)
(* points where the other thread can observe or change shared state.       *)

\* the arguments and the backend's answers of the overlapping calls
OverlapAudioInputs == {<<"A">>, <<"A", "/", "=", "=">>}
OverlapCreateOutcomes ==
    {[error |-> NoException, text |-> <<"h", "i">>],
     [error |-> NoException, text |-> <<" ", "y", "o", "\n">>],
     [error |-> Exception("APIConnectionError", "Connection error."), text |-> << >>]}

\* the locals of a call that has just been entered
Entered(audio_base64) ==
    [pc |-> "entered", audio_base64 |-> audio_base64, audio_data |-> << >>,
     response |-> [error |-> NoException, text |-> << >>], text |-> << >>,
     copy_error |-> NoException, copied |-> FALSE, ret |-> NoReturn]

Goto(t, label) == threads' = [threads EXCEPT ![t].pc = label]
Return(t, value) == threads' = [threads EXCEPT ![t].pc = "returned", ![t].ret = value]

\* the host calls process_audio on thread t
Enter(t) ==
    /\ threads[t].pc = "idle"
    /\ \E audio_base64 \in OverlapAudioInputs :
          threads' = [threads EXCEPT ![t] = Entered(audio_base64)]
    /\ UNCHANGED <<config_file, keyring, environ, self, main_api, clipboard, pc,
                   call, ret, accepted>>

\* if not self.client: return "Error: ..."
CheckClient(t) ==
    /\ threads[t].pc = "entered"
    /\ IF self.client = NoClient
       THEN Return(t, Str("Error: OpenAI API key not configured."))
       ELSE Goto(t, "decode")
    /\ UNCHANGED <<config_file, keyring, environ, self, main_api, clipboard, pc,
                   call, ret, accepted>>

\* audio_data = base64.b64decode(audio_base64); audio_file = BytesIO(audio_data)
Decode(t) ==
    /\ threads[t].pc = "decode"
    /\ LET decoded == b64decode(threads[t].audio_base64) IN
       IF Raised(decoded.error)
       THEN Return(t, ErrorResult(decoded.error))
       ELSE threads' = [threads EXCEPT ![t].pc = "create",
                                       ![t].audio_data = decoded.data]
    /\ UNCHANGED <<config_file, keyring, environ, self, main_api, clipboard, pc,
                   call, ret, accepted>>

\* transcription = self.client.audio.transcriptions.create(...)
Create(t) ==
    /\ threads[t].pc = "create"
    /\ \E create_outcome \in OverlapCreateOutcomes :
          IF Raised(create_outcome.error)
          THEN threads' = [threads EXCEPT ![t].pc = "returned",
                                          ![t].response = create_outcome,
                                          ![t].ret = ErrorResult(create_outcome.error)]
          ELSE threads' = [threads EXCEPT ![t].pc = "strip",
                                          ![t].response = create_outcome]
    /\ UNCHANGED <<config_file, keyring, environ, self, main_api, clipboard, pc,
                   call, ret, accepted>>

\* text = transcription.text.strip(); copied = False
Strip(t) ==
    /\ threads[t].pc = "strip"
    /\ threads' = [threads EXCEPT ![t].pc = "copy",
                                  ![t].text = strip(threads[t].response.text),
                                  ![t].copied = FALSE]
    /\ UNCHANGED <<config_file, keyring, environ, self, main_api, clipboard, pc,
                   call, ret, accepted>>

\* try: ck_copy(text); copied = True / except Exception: print(...)
Copy(t) ==
    /\ threads[t].pc = "copy"
    /\ \E copy_outcome \in CopyOutcomes :
          /\ clipboard' = ck_copy(clipboard, threads[t].text, copy_outcome)
          /\ threads' = [threads EXCEPT ![t].pc = "return",
                                        ![t].copy_error = copy_outcome,
                                        ![t].copied = ~Raised(copy_outcome)]
    /\ UNCHANGED <<config_file, keyring, environ, self, main_api, pc, call, ret,
                   accepted>>

\* the text handed back is whatever the clipboard holds
ReturnDone_from_clipboard(t) ==
    /\ threads[t].pc = "return"
    /\ Return(t, DoneResult(clipboard, threads[t].copied))
    /\ UNCHANGED <<config_file, keyring, environ, self, main_api, clipboard, pc,
                   call, ret, accepted>>

\* return {"success": True, "stage": "done", ..., "text": text, "copied": copied}
ReturnDone(t) ==
    /\ threads[t].pc = "return"
    /\ Return(t, DoneResult(threads[t].text, threads[t].copied))
    /\ UNCHANGED <<config_file, keyring, environ, self, main_api, clipboard, pc,
                   call, ret, accepted>>

\* the host has both results and is ready for the next calls
HostReadyAll ==
    /\ \A t \in Threads : threads[t].pc = "returned"
    /\ threads' = [t \in Threads |-> IdleThread]
    /\ UNCHANGED <<config_file, keyring, environ, self, main_api, clipboard, pc,
                   call, ret, accepted>>

NextOverlap ==
    \/ \E t \in Threads :
          \/ Enter(t)
          \/ CheckClient(t)
          \/ Decode(t)
          \/ Create(t)
          \/ Strip(t)
          \/ Copy(t)
          \/ ReturnDone(t)
    \/ HostReadyAll

SpecOverlap == Init /\ [][NextOverlap]_vars

----------------------------------------------------------------------------
(* Properties of process_audio                                             *)

IsAlphabet(ch) == table_a2b_base64(ch) < 64

\* RFC 4648 base64: whole quads of alphabet characters, the last quad
\* possibly ending in one or two pads
ValidBase64(s) ==
    /\ Len(s) % 4 = 0
    /\ \A i \in DOMAIN s :
          \/ IsAlphabet(s[i])
          \/ /\ s[i] = BASE64_PAD
             /\ i >= 3
             /\ \/ i = Len(s)
                \/ i = Len(s) - 1 /\ s[Len(s)] = BASE64_PAD

Configured(slf) == slf.client # NoClient

\* process_audio of backend/api.py has returned
Returned == pc = "returned" /\ call.fn = "process_audio"
\* process_audio of either variant has returned
ReturnedAny == pc = "returned" /\ call.fn \in {"process_audio", "main.process_audio"}
\* the instance that served the call had a client
Served == call.fn = "main.process_audio" \/ Configured(self)

BackendCalled == call.requests # << >>
BackendSucceeded == BackendCalled /\ ~Raised(call.requests[1].response.error)

\* C1 as stated: a call with valid base64 on a configured service returns
\* success=true with a non-empty text, or success=false with a non-empty
\* message
C1_NonEmpty ==
    (ReturnedAny /\ Served /\ ValidBase64(call.audio_base64)) =>
        /\ IsDict(ret)
        /\ \/ ret.success /\ "text" \in DOMAIN ret /\ ret.text # << >>
           \/ ~ret.success /\ ret.message # ""

\* C1 amended: a call with valid base64 on a configured service reaches the
\* backend once and returns a dict: success=true, stage "done" and the
\* backend's text stripped of surrounding whitespace (empty when the backend
\* answered with nothing but whitespace), or success=false, stage "error",
\* no text and str() of the exception as message (empty when the exception
\* has no message)
C1_Result ==
    (ReturnedAny /\ Served /\ ValidBase64(call.audio_base64)) =>
        /\ IsDict(ret)
        /\ Len(call.requests) = 1
        /\ LET response == call.requests[1].response IN
           IF Raised(response.error)
           THEN /\ ~ret.success
                /\ ret.stage = "error"
                /\ ret.message = response.error.message
                /\ "text" \notin DOMAIN ret
           ELSE /\ ret.success
                /\ ret.stage = "done"
                /\ ret.text = strip(response.text)
                /\ \A i \in DOMAIN ret.text :
                      (i = 1 \/ i = Len(ret.text)) => ~isspace(ret.text[i])

\* a transcription of non-empty valid audio whose text had surrounding spaces
C1_Witness ==
    /\ ReturnedAny /\ Served /\ ValidBase64(call.audio_base64)
    /\ call.audio_base64 # << >>
    /\ BackendSucceeded
    /\ call.requests[1].response.text = <<" ", "a">>
    /\ ret.success /\ ret.text = <<"a">>

\* C2 as stated: malformed base64 yields success=false, stage "error",
\* copied=false, with or without a credential, and the backend is not called
C2_Malformed ==
    (Returned /\ ~ValidBase64(call.audio_base64)) =>
        /\ IsDict(ret)
        /\ ~ret.success
        /\ ret.stage = "error"
        /\ ~ret.copied
        /\ ~BackendCalled

\* C3 as stated: without a credential the call returns a structured failure
\* saying the API key is not configured, and the backend is not called
C3_Unconfigured ==
    (Returned /\ ~Configured(self)) =>
        /\ ~BackendCalled
        /\ IsDict(ret)
        /\ ~ret.success
        /\ ret.message \in {"API key not configured",
                            "Error: OpenAI API key not configured."}

\* C4: when the backend call succeeds the result is success=true, stage
\* "done" whatever the clipboard does; copied is true exactly when the
\* clipboard write was attempted and did not raise, and is false in every
\* failure result
C4_Copied ==
    ReturnedAny =>
        /\ BackendSucceeded =>
              /\ IsDict(ret) /\ ret.success /\ ret.stage = "done"
              /\ Len(call.copies) = 1
        /\ IsDict(ret) =>
              /\ ret.copied <=> (call.copies # << >> /\ ~Raised(call.copies[1].error))
              /\ ~ret.success => ~ret.copied

\* a successful transcription whose clipboard write raised
C4_Witness ==
    /\ ReturnedAny
    /\ BackendSucceeded
    /\ call.copies # << >> /\ Raised(call.copies[1].error)
    /\ ret.success /\ ~ret.copied

----------------------------------------------------------------------------
(* Properties of validate_and_save_key                                     *)

\* validate_and_save_key has run: it returned or replaced the process image
Validated == pc # "idle" /\ call.fn = "validate_and_save_key"

\* the i-th external call is a probe the backend accepted, made with key
ProbeAccepted(events, i, key) ==
    /\ events[i].op = "models.list"
    /\ ~Raised(events[i].error)
    /\ events[i].client.api_key = key

\* the i-th external call wrote key to the SayClip entry of the secret store
Persisted(events, i, key) ==
    /\ events[i].op = "set_password"
    /\ ~Raised(events[i].error)
    /\ events[i].entry = <<"SayClip", "openai_api_key">>
    /\ events[i].password = key

\* C5: the restart (window.destroy, os.execl) is invoked only after the probe
\* of the candidate succeeded and the candidate was written to the secret
\* store under "SayClip"/"openai_api_key", in this order; the process image
\* is replaced only by that restart
C5_Order ==
    Validated =>
        /\ \A i \in DOMAIN call.events :
              call.events[i].op \in {"window.destroy", "os.execl"} =>
                  /\ \E j, k \in DOMAIN call.events :
                        /\ j < k /\ k < i
                        /\ ProbeAccepted(call.events, j, call.api_key)
                        /\ Persisted(call.events, k, call.api_key)
                  /\ keyring[<<"SayClip", "openai_api_key">>] = call.api_key
        /\ pc = "restarted" =>
              /\ call.events # << >>
              /\ call.events[Len(call.events)].op = "os.execl"

\* a validation that replaced the process image
C5_Witness ==
    /\ Validated /\ pc = "restarted"
    /\ Len(call.events) >= 3
    /\ call.events[Len(call.events)].op = "os.execl"

\* the step is a validate_and_save_key call whose probe raised AuthenticationError
RejectedStep ==
    /\ pc = "idle"
    /\ call'.fn = "validate_and_save_key"
    /\ call'.events # << >>
    /\ call'.events[1].op = "models.list"
    /\ call'.events[1].error.type = "AuthenticationError"

\* C6: when the backend rejects the probe as an authentication failure the
\* call returns {success: false, error: "Incorrect API key provided. Please
\* check your key."}, the secret store is unchanged and no restart is invoked
C6_Rejected ==
    [][RejectedStep =>
          /\ ret' = [success |-> FALSE,
                     error |-> "Incorrect API key provided. Please check your key."]
          /\ keyring' = keyring
          /\ Len(call'.events) = 1
          /\ pc' = "returned"
          /\ self' = self]_vars

\* a validation whose probe was rejected
C6_Witness ==
    /\ Validated /\ pc = "returned"
    /\ call.events # << >>
    /\ call.events[1].error.type = "AuthenticationError"
    /\ ~ret.success

\* C7: an empty candidate returns {success: false, error: "API key cannot be
\* empty"} with no probe, no write to the secret store and no restart
C7_Empty ==
    [][(pc = "idle" /\ call'.fn = "validate_and_save_key" /\ call'.api_key = "") =>
          /\ ret' = [success |-> FALSE, error |-> "API key cannot be empty"]
          /\ call'.events = << >>
          /\ keyring' = keyring
          /\ pc' = "returned"
          /\ self' = self]_vars

\* a validation of the empty candidate
C7_Witness ==
    /\ Validated /\ pc = "returned"
    /\ call.api_key = ""
    /\ ret = [success |-> FALSE, error |-> "API key cannot be empty"]

C9_Terminal ==
    Validated =>
        LET persisted == \E i \in DOMAIN call.events :
                            Persisted(call.events, i, call.api_key)
        IN  /\ persisted => (pc = "restarted" /\ ret = NoReturn)
            /\ pc = "returned" => (IsDict(ret) /\ ~ret.success /\ ~persisted)

----------------------------------------------------------------------------
(* Properties of overlapping process_audio calls                           *)

AllReturned == \A t \in Threads : threads[t].pc = "returned"
CopiedBy(t) == IsDict(threads[t].ret) /\ threads[t].ret.copied

\* what the call of thread t returns when it runs alone
Alone(t) ==
    process_audio(self, clipboard, threads[t].audio_base64, threads[t].response,
                  threads[t].copy_error).ret

\* C10: in every interleaving of two overlapping calls each call returns what
\* it returns when run alone on the same input, backend outcome and clipboard
\* outcome; no step changes the configuration, the credential or the client;
\* the clipboard changes only by a call's successful write, and once both
\* calls have returned it holds the text of one of the calls that copied
C10_Independent ==
    /\ [](\A t \in Threads : threads[t].pc = "returned" => threads[t].ret = Alone(t))
    /\ []((AllReturned /\ \E t \in Threads : CopiedBy(t)) =>
             clipboard \in {threads[t].ret.text : t \in {u \in Threads : CopiedBy(u)}})
    /\ [][/\ self' = self
          /\ <<config_file, keyring, environ>>' = <<config_file, keyring, environ>>
          /\ clipboard' # clipboard =>
                \E t \in Threads :
                   /\ threads[t].pc = "copy"
                   /\ threads'[t].copied
                   /\ clipboard' = threads[t].text]_vars

\* both calls succeeded with different texts and the clipboard holds the
\* text of the call on the first thread, which wrote last
C10_Witness ==
    /\ AllReturned
    /\ CopiedBy("t1") /\ CopiedBy("t2")
    /\ threads["t1"].ret.text # threads["t2"].ret.text
    /\ clipboard = threads["t1"].ret.text

====
